---- MODULE Spec2Model ----
(***************************************************************************)
(* A model of steam-compatdata-checker (src/src/main.rs).                  *)
(*                                                                         *)
(* Text is modelled as a sequence of one-character strings, so that        *)
(* lines(), trim(), split('"'), starts_with(), parse::<u32>() and          *)
(* to_string() are computed on the characters, as the program does.        *)
(* A u32 is modelled as a pair <<hi, lo>> of 16-bit limbs                  *)
(* (value = hi * 2^16 + lo), which keeps the full 32-bit width.            *)
(* A character with no escape in a TLA+ string is named by its code point, *)
(* as in "U+00A0".                                                         *)
(***************************************************************************)
EXTENDS Integers, Sequences, FiniteSets, TLC

VARIABLES
    fs,                     \* the filesystem the run reads (never written)
    env,                    \* what std::env::var("HOME") gives (never written)
    pc,                     \* position of main
    main_steam_path,        \* main: steam_path, the Steam path it settles on
    libraries,              \* main: Vec<SteamLibrary>
    all_installed_apps,     \* main: HashSet<u32>
    all_compatdata,         \* main: Vec<CompatData>
    proton_versions_found,  \* main: HashSet<u32>
    idx,                    \* main: position of the for loop over all_compatdata
    lookup,                 \* main: the value fetch_app_info returned for the entry
    inflight,               \* catalog requests sent and not yet answered
    requests,               \* every catalog request sent so far (the urls, in order)
    since_sleep,            \* catalog requests sent since the last delay (history)
    delays,                 \* delays taken so far (history)
    stdout,                 \* the lines printed so far
    stderr,                 \* the error main returned, as the runtime prints it
    arg,                    \* argument of the function under test (function specs)
    ret                     \* its return value (function specs)

vars == <<fs, env, pc, main_steam_path, libraries, all_installed_apps,
          all_compatdata, proton_versions_found, idx, lookup, inflight,
          requests, since_sleep, delays, stdout, stderr, arg, ret>>

mainVars == <<fs, env, pc, main_steam_path, libraries, all_installed_apps,
              all_compatdata, proton_versions_found, idx, lookup, inflight,
              requests, since_sleep, delays, stdout, stderr>>

-----------------------------------------------------------------------------
(* Characters and strings *)

Q == "\""

Digits == <<"0", "1", "2", "3", "4", "5", "6", "7", "8", "9">>

IsDigit(c) == \E i \in 1..10 : Digits[i] = c

DigitVal(c) == (CHOOSE i \in 1..10 : Digits[i] = c) - 1

\* the characters with the Unicode property White_Space
WHITE_SPACE ==
    {"\t", "\n", "U+000B", "\f", "\r", " ", "U+0085", "U+00A0", "U+1680",
     "U+2000", "U+2001", "U+2002", "U+2003", "U+2004", "U+2005", "U+2006",
     "U+2007", "U+2008", "U+2009", "U+200A", "U+2028", "U+2029", "U+202F",
     "U+205F", "U+3000"}

\* char::is_whitespace
IsWhitespace(c) == c \in WHITE_SPACE

RECURSIVE TrimStart(_)
TrimStart(s) ==
    IF s # <<>> /\ IsWhitespace(Head(s)) THEN TrimStart(Tail(s)) ELSE s

RECURSIVE TrimEnd(_)
TrimEnd(s) ==
    IF s # <<>> /\ IsWhitespace(s[Len(s)])
    THEN TrimEnd(SubSeq(s, 1, Len(s) - 1))
    ELSE s

\* str::trim
Trim(s) == TrimEnd(TrimStart(s))

\* str::starts_with
StartsWith(s, p) == Len(s) >= Len(p) /\ SubSeq(s, 1, Len(p)) = p

\* str::split(ch), collected: the pieces between the occurrences of ch
RECURSIVE SplitFrom(_, _, _)
SplitFrom(s, ch, cur) ==
    IF s = <<>> THEN <<cur>>
    ELSE IF Head(s) = ch THEN <<cur>> \o SplitFrom(Tail(s), ch, <<>>)
    ELSE SplitFrom(Tail(s), ch, Append(cur, Head(s)))

Split(s, ch) == SplitFrom(s, ch, <<>>)

None == [some |-> FALSE, val |-> <<>>]
Some(v) == [some |-> TRUE, val |-> v]

\* Iterator::nth (zero-based)
Nth(seq, n) == IF n + 1 <= Len(seq) THEN Some(seq[n + 1]) ELSE None

HasNewline(s) == \E i \in 1..Len(s) : s[i] = "\n"

FirstNewline(s) ==
    CHOOSE i \in 1..Len(s) : s[i] = "\n" /\ \A j \in 1..(i - 1) : s[j] # "\n"

\* a line's end: a "\r" before the "\n" goes with it
StripCr(line) ==
    IF line # <<>> /\ line[Len(line)] = "\r"
    THEN SubSeq(line, 1, Len(line) - 1)
    ELSE line

\* str::lines: split at "\n" (or "\r\n"); what follows the last "\n" is a line
\* unless it is empty
\* (the rest of the text is computed once, then carried on)
RECURSIVE Lines(_)
Lines(s) ==
    IF s = <<>> THEN <<>>
    ELSE IF ~HasNewline(s) THEN <<s>>
    ELSE CHOOSE out \in {<<StripCr(SubSeq(s, 1, i - 1))>> \o Lines(rest) :
                            i \in {FirstNewline(s)},
                            rest \in {SubSeq(s, FirstNewline(s) + 1, Len(s))}} : TRUE

-----------------------------------------------------------------------------
(* u32 as two 16-bit limbs *)

Limb == 2 ^ 16

\* the u32 of a number below 2^31
U32(n) == <<n \div Limb, n % Limb>>

Err == [ok |-> FALSE, val |-> <<>>]
Ok(v) == [ok |-> TRUE, val |-> v]

\* checked_mul(10) then checked_add(d): Err on leaving the u32 range
MulAdd10(v, d) ==
    LET lo == v[2] * 10 + d
        hi == v[1] * 10 + (lo \div Limb)
    IN  IF hi >= Limb THEN Err ELSE Ok(<<hi, lo % Limb>>)

RECURSIVE ParseDigits(_, _)
ParseDigits(s, acc) ==
    IF s = <<>> THEN Ok(acc)
    ELSE IF ~IsDigit(Head(s)) THEN Err
    ELSE CHOOSE out \in {IF r.ok THEN ParseDigits(rest, r.val) ELSE Err :
                            r \in {MulAdd10(acc, DigitVal(Head(s)))},
                            rest \in {Tail(s)}} : TRUE

\* str::parse::<u32>: an optional "+", then one or more decimal digits, the
\* value at most 2^32 - 1; "-" is no sign of an unsigned type
ParseU32(s) ==
    IF s = <<>> THEN Err
    ELSE IF Head(s) \in {"+", "-"} /\ Len(s) = 1 THEN Err
    ELSE IF Head(s) = "+" THEN ParseDigits(Tail(s), <<0, 0>>)
    ELSE ParseDigits(s, <<0, 0>>)

\* v divided by 10: <<quotient, remainder>>
DivMod10(v) ==
    LET r1 == v[1] % 10
        t  == r1 * Limb + v[2]
    IN  <<  <<v[1] \div 10, t \div 10>>, t % 10 >>

RECURSIVE to_string_from(_)
to_string_from(v) ==
    IF v = <<0, 0>> THEN <<>>
    ELSE CHOOSE out \in {Append(to_string_from(qr[1]), Digits[qr[2] + 1]) :
                            qr \in {DivMod10(v)}} : TRUE

\* u32::to_string
to_string(v) == IF v = <<0, 0>> THEN <<"0">> ELSE to_string_from(v)

-----------------------------------------------------------------------------
(* Paths and the filesystem *)

\* "steamapps/libraryfolders.vdf"
MANIFEST_REL ==
    <<"s","t","e","a","m","a","p","p","s","/",
      "l","i","b","r","a","r","y","f","o","l","d","e","r","s",".","v","d","f">>

\* "steamapps/compatdata"
COMPATDATA_REL ==
    <<"s","t","e","a","m","a","p","p","s","/",
      "c","o","m","p","a","t","d","a","t","a">>

\* Path::join with a relative path
PathJoin(p, rel) ==
    IF p = <<>> THEN rel
    ELSE IF p[Len(p)] = "/" THEN p \o rel
    ELSE p \o <<"/">> \o rel

NotEmptyNorDot(piece) == piece # <<>> /\ piece # <<".">>

\* Path::components: what PathBuf's == compares and the filesystem resolves.
\* Repeated and trailing separators and inner "." pieces do not count.
Components(p) ==
    LET pieces == Split(p, "/")
        rest   == SelectSeq(pieces, NotEmptyNorDot)
    IN  IF p = <<>> THEN <<>>
        ELSE IF Head(p) = "/" THEN << <<"/">> >> \o rest
        ELSE IF Head(pieces) = <<".">> THEN << <<".">> >> \o rest
        ELSE rest

\* PathBuf: PartialEq
PathEq(p, q) == Components(p) = Components(q)

\* The filesystem is [files, dirs, cwd]: files maps the components of a
\* regular file to its text, dirs maps the components of a directory to its
\* listing (the names read_dir yields, in the order it yields them), cwd is
\* the components of the process's working directory, where a relative path
\* starts. A name a listing gives with no record of its own is an empty
\* directory.

ROOT_DIR == << <<"/">> >>

\* the entry is named by the listing of the directory that holds it
Listed(f, c) ==
    /\ Len(c) > 1
    /\ SubSeq(c, 1, Len(c) - 1) \in DOMAIN f.dirs
    /\ \E i \in DOMAIN f.dirs[SubSeq(c, 1, Len(c) - 1)] :
         f.dirs[SubSeq(c, 1, Len(c) - 1)][i] = c[Len(c)]

\* the entry is a directory
IsDir(f, c) ==
    \/ c = ROOT_DIR
    \/ c \in DOMAIN f.dirs
    \/ c \notin DOMAIN f.files /\ Listed(f, c)

\* the entry is there, a file or a directory
Present(f, c) == c \in DOMAIN f.files \/ IsDir(f, c)

\* the directory above (the root is above itself)
Parent(c) == IF c = ROOT_DIR THEN c ELSE SubSeq(c, 1, Len(c) - 1)

\* one step of path resolution from the directory cur: the empty piece a
\* separator leaves and "." stay there, ".." is the directory above, a name
\* is the entry under cur
Step(cur, piece) ==
    IF piece \in {<<>>, <<".">>} THEN cur
    ELSE IF piece = <<".", ".">> THEN Parent(cur)
    ELSE Append(cur, piece)

\* path resolution, piece by piece: every piece is looked up in a
\* directory; None where the lookup fails
\* (the entry after each piece is computed once, then carried on)
RECURSIVE Walk(_, _, _, _)
Walk(f, cur, pieces, i) ==
    IF i > Len(pieces) THEN IF Present(f, cur) THEN Some(cur) ELSE None
    ELSE IF ~IsDir(f, cur) THEN None
    ELSE CHOOSE out \in {Walk(f, next, pieces, i + 1) :
                            next \in {Step(cur, pieces[i])}} : TRUE

\* the entry a path names, if any: an absolute path starts at the root, a
\* relative one at the working directory (the empty path names none)
Resolve(f, p) ==
    IF p = <<>> THEN None
    ELSE CHOOSE out \in {IF Head(p) = "/" THEN Walk(f, ROOT_DIR, pieces, 2)
                         ELSE Walk(f, f.cwd, pieces, 1) :
                            pieces \in {Split(p, "/")}} : TRUE

\* fs::read_to_string
read_to_string(f, p) ==
    LET c == Resolve(f, p)
    IN  IF c.some /\ c.val \in DOMAIN f.files THEN Ok(f.files[c.val]) ELSE Err

\* fs::read_dir
read_dir(f, p) ==
    LET c == Resolve(f, p)
    IN  IF c.some /\ IsDir(f, c.val)
        THEN IF c.val \in DOMAIN f.dirs THEN Ok(f.dirs[c.val]) ELSE Ok(<<>>)
        ELSE Err

\* Path::exists
exists(f, p) == Resolve(f, p).some

-----------------------------------------------------------------------------
(* parse_installed_apps *)

\* ParseLine without the closing of the section
ParseLine_NeverCloses(st, line) ==
    LET trimmed_line == Trim(line)
        app_id_str   == Nth(Split(trimmed_line, Q), 1)
        app_id       == ParseU32(app_id_str.val)
    IN  IF trimmed_line = <<Q, "a", "p", "p", "s", Q>>
        THEN [st EXCEPT !.in_apps_section = TRUE]
        ELSE IF st.in_apps_section /\ StartsWith(trimmed_line, <<Q>>)
                /\ app_id_str.some /\ app_id.ok
        THEN [st EXCEPT !.installed_apps = @ \cup {app_id.val}]
        ELSE st

\* one iteration of the loop over content.lines()
ParseLine(st, line) ==
    LET trimmed_line == Trim(line)
        app_id_str   == Nth(Split(trimmed_line, Q), 1)
        app_id       == ParseU32(app_id_str.val)
    IN  IF trimmed_line = <<Q, "a", "p", "p", "s", Q>>
        THEN [st EXCEPT !.in_apps_section = TRUE]
        ELSE IF st.in_apps_section /\ trimmed_line = <<"}">>
        THEN [st EXCEPT !.in_apps_section = FALSE]
        ELSE IF st.in_apps_section /\ StartsWith(trimmed_line, <<Q>>)
                /\ app_id_str.some /\ app_id.ok
        THEN [st EXCEPT !.installed_apps = @ \cup {app_id.val}]
        ELSE st

\* the loop: the state after each line is computed once, then carried on
RECURSIVE ParseLines(_, _)
ParseLines(st, lines) ==
    IF lines = <<>> THEN st
    ELSE CHOOSE out \in {ParseLines(next, rest) :
                            next \in {ParseLine(st, Head(lines))},
                            rest \in {Tail(lines)}} : TRUE

\* the function on the result of its fs::read_to_string
parse_installed_apps_of(file) ==
    LET st0 == [in_apps_section |-> FALSE, installed_apps |-> {}]
    IN  IF file.ok
        THEN Ok(ParseLines(st0, Lines(file.val)).installed_apps)
        ELSE Ok({})

parse_installed_apps(f, config_path) ==
    parse_installed_apps_of(read_to_string(f, config_path))

-----------------------------------------------------------------------------
(* scan_compatdata_dirs *)

\* a byte sequence that is not UTF-8, in a file name
BAD_BYTE == "<FF>"

\* OsStr::to_str
to_str(name) ==
    IF \E i \in 1..Len(name) : name[i] = BAD_BYTE THEN None ELSE Some(name)

\* ScanEntry without its test of the name "0"
ScanEntry_KeepsZero(compat_entries, compatdata_path, name) ==
    LET dir_name == to_str(name)
        app_id   == ParseU32(dir_name.val)
    IN  IF dir_name.some /\ app_id.ok
        THEN Append(compat_entries,
                    [path |-> PathJoin(compatdata_path, name),
                     app_id |-> app_id.val])
        ELSE compat_entries

\* one iteration of the loop over the directory's entries
ScanEntry(compat_entries, compatdata_path, name) ==
    LET dir_name == to_str(name)
        app_id   == ParseU32(dir_name.val)
    IN  IF dir_name.some /\ dir_name.val # <<"0">> /\ app_id.ok
        THEN Append(compat_entries,
                    [path |-> PathJoin(compatdata_path, name),
                     app_id |-> app_id.val])
        ELSE compat_entries

\* the loop: the entries after each name are computed once, then carried on
RECURSIVE ScanEntries(_, _, _)
ScanEntries(compat_entries, compatdata_path, names) ==
    IF names = <<>> THEN compat_entries
    ELSE CHOOSE out \in {ScanEntries(next, compatdata_path, rest) :
                            next \in {ScanEntry(compat_entries, compatdata_path,
                                                Head(names))},
                            rest \in {Tail(names)}} : TRUE

scan_compatdata_dirs(f, steam_path) ==
    LET compatdata_path == PathJoin(steam_path, COMPATDATA_REL)
        entries         == read_dir(f, compatdata_path)
    IN  IF entries.ok THEN ScanEntries(<<>>, compatdata_path, entries.val)
        ELSE <<>>

-----------------------------------------------------------------------------
(* get_steam_libraries *)

\* LibraryLine without the comparison with the root path
LibraryLine_KeepsRoot(st, f, steam_path, line) ==
    LET trimmed == Trim(line)
        path    == Nth(Split(trimmed, Q), 3)
        cur     == IF StartsWith(trimmed, <<Q, "p", "a", "t", "h", Q>>) /\ path.some
                   THEN Some(path.val)
                   ELSE st.current_path
    IN  IF trimmed = <<"}">> /\ cur.some
        THEN [current_path |-> None,
              libraries |->
                IF exists(f, cur.val)
                THEN Append(st.libraries,
                       [path |-> cur.val,
                        installed_apps |->
                          parse_installed_apps(f, PathJoin(cur.val, MANIFEST_REL)).val])
                ELSE st.libraries]
        ELSE [current_path |-> cur, libraries |-> st.libraries]

\* one iteration of the loop over content.lines()
LibraryLine(st, f, steam_path, line) ==
    LET trimmed == Trim(line)
        path    == Nth(Split(trimmed, Q), 3)
        cur     == IF StartsWith(trimmed, <<Q, "p", "a", "t", "h", Q>>) /\ path.some
                   THEN Some(path.val)
                   ELSE st.current_path
    IN  IF trimmed = <<"}">> /\ cur.some
        THEN [current_path |-> None,
              libraries |->
                IF exists(f, cur.val) /\ ~PathEq(cur.val, steam_path)
                THEN Append(st.libraries,
                       [path |-> cur.val,
                        installed_apps |->
                          LET r == parse_installed_apps(f, PathJoin(cur.val, MANIFEST_REL))
                          IN  IF r.ok THEN r.val ELSE {}])
                ELSE st.libraries]
        ELSE [current_path |-> cur, libraries |-> st.libraries]

\* the loop: the state after each line is computed once, then carried on
RECURSIVE LibraryLines(_, _, _, _)
LibraryLines(st, f, steam_path, lines) ==
    IF lines = <<>> THEN st
    ELSE CHOOSE out \in {LibraryLines(next, f, steam_path, rest) :
                            next \in {LibraryLine(st, f, steam_path, Head(lines))},
                            rest \in {Tail(lines)}} : TRUE

\* get_steam_libraries with the root manifest's read failure swallowed
get_steam_libraries_Swallows(f, steam_path) ==
    LET first   == parse_installed_apps(f, PathJoin(steam_path, MANIFEST_REL))
        content == read_to_string(f, PathJoin(steam_path, MANIFEST_REL))
        st0     == [current_path |-> None,
                    libraries |-> << [path |-> steam_path,
                                      installed_apps |-> first.val] >>]
    IN  IF ~content.ok THEN Ok(st0.libraries)
        ELSE Ok(LibraryLines(st0, f, steam_path, Lines(content.val)).libraries)

get_steam_libraries(f, steam_path) ==
    LET first   == parse_installed_apps(f, PathJoin(steam_path, MANIFEST_REL))
        content == read_to_string(f, PathJoin(steam_path, MANIFEST_REL))
        st0     == [current_path |-> None,
                    libraries |-> << [path |-> steam_path,
                                      installed_apps |-> first.val] >>]
    IN  IF ~first.ok \/ ~content.ok THEN Err
        ELSE Ok(LibraryLines(st0, f, steam_path, Lines(content.val)).libraries)

-----------------------------------------------------------------------------
(* serde_json::Value: [kind, val], kind one of null, bool, num, str, arr, obj; *)
(* an object's val is a function from its keys (character sequences)          *)

JNull == [kind |-> "null", val |-> <<>>]
JBool(b) == [kind |-> "bool", val |-> b]
JNum(n) == [kind |-> "num", val |-> n]
JStr(s) == [kind |-> "str", val |-> s]
JArr(a) == [kind |-> "arr", val |-> a]
JObj(f) == [kind |-> "obj", val |-> f]

\* Value::get(&str)
JGet(v, key) ==
    IF v.kind = "obj" /\ key \in DOMAIN v.val THEN Some(v.val[key]) ELSE None

\* Value's Index<&str>: Null where there is nothing
JIndex(v, key) == IF JGet(v, key).some THEN JGet(v, key).val ELSE JNull

\* Value::as_bool
as_bool(v) == IF v.kind = "bool" THEN Some(v.val) ELSE None

\* Value::as_str
as_str(v) == IF v.kind = "str" THEN Some(v.val) ELSE None

unwrap_or(opt, default) == IF opt.some THEN opt.val ELSE default

K_SUCCESS == <<"s", "u", "c", "c", "e", "s", "s">>
K_DATA == <<"d", "a", "t", "a">>
K_NAME == <<"n", "a", "m", "e">>

-----------------------------------------------------------------------------
(* fetch_app_info *)

PROTON_EXPERIMENTAL == 1493710
PROTON_9 == 2805730

PROTON_VERSIONS ==
    (U32(PROTON_EXPERIMENTAL) :> "Proton Experimental")
    @@ (U32(PROTON_9) :> "Proton 9.0")

\* the url of the request: the endpoint with the identifier's decimal form
Url(app_id) == [endpoint |-> "api/appdetails", appids |-> to_string(app_id)]

\* What the two awaits of the request bring back, reqwest::get(&url) and
\* then response.text(), is a response:
\*   [kind |-> "err"]      reqwest::get failed
\*   [kind |-> "no_text"]  reqwest::get gave a response, response.text() failed
\*   [kind |-> "text", json |-> Err]      the body is not JSON
\*   [kind |-> "text", json |-> Ok(v)]    serde_json::from_str gave v
RespErr == [kind |-> "err", json |-> Err]
RespNoText == [kind |-> "no_text", json |-> Err]
RespNotJson == [kind |-> "text", json |-> Err]
RespJson(v) == [kind |-> "text", json |-> Ok(v)]

\* HandleResponse with `success` defaulting to true
HandleResponse_DefaultsTrue(app_id, resp) ==
    IF resp.kind = "text" /\ resp.json.ok
       /\ JGet(resp.json.val, to_string(app_id)).some
    THEN LET app_data == JGet(resp.json.val, to_string(app_id)).val
             success  == unwrap_or(as_bool(JIndex(app_data, K_SUCCESS)), TRUE)
             name     == IF success
                         THEN unwrap_or(as_str(JIndex(JIndex(app_data, K_DATA), K_NAME)),
                                        "Unknown")
                         ELSE "Unknown Application"
         IN  Some(<<success, name>>)
    ELSE None

\* the match on the request's outcome
HandleResponse(app_id, resp) ==
    IF resp.kind = "text" /\ resp.json.ok
       /\ JGet(resp.json.val, to_string(app_id)).some
    THEN LET app_data == JGet(resp.json.val, to_string(app_id)).val
             success  == unwrap_or(as_bool(JIndex(app_data, K_SUCCESS)), FALSE)
             name     == IF success
                         THEN unwrap_or(as_str(JIndex(JIndex(app_data, K_DATA), K_NAME)),
                                        "Unknown")
                         ELSE "Unknown Application"
         IN  Some(<<success, name>>)
    ELSE None

\* SendsRequest without the look at the table
SendsRequest_Always(app_id) == app_id = app_id

\* whether the function sends a request at all
SendsRequest(app_id) == app_id \notin DOMAIN PROTON_VERSIONS

\* the function, given the response its request (if it sends one) would get
fetch_app_info(app_id, resp) ==
    IF ~SendsRequest(app_id) THEN Some(<<TRUE, PROTON_VERSIONS[app_id]>>)
    ELSE HandleResponse(app_id, resp)

-----------------------------------------------------------------------------
(* main: the Steam path *)

\* ".var/app/com.valvesoftware.Steam/.local/share/Steam"
FLATPAK_REL ==
    <<".", "v", "a", "r", "/", "a", "p", "p", "/", "c", "o", "m",
      ".", "v", "a", "l", "v", "e", "s", "o", "f", "t", "w", "a",
      "r", "e", ".", "S", "t", "e", "a", "m", "/", ".", "l", "o",
      "c", "a", "l", "/", "s", "h", "a", "r", "e", "/", "S", "t",
      "e", "a", "m">>

\* ".local/share/Steam"
REGULAR_REL ==
    <<".", "l", "o", "c", "a", "l", "/", "s", "h", "a", "r", "e",
      "/", "S", "t", "e", "a", "m">>

\* the flatpak path when it exists, the regular path otherwise
SteamPath(home, f) ==
    LET flatpak_path == PathJoin(home, FLATPAK_REL)
        regular_path == PathJoin(home, REGULAR_REL)
    IN  IF exists(f, flatpak_path) THEN flatpak_path ELSE regular_path

-----------------------------------------------------------------------------
(* The inputs: manifests, directory listings, catalog responses *)

MaxBlocks == 2      \* library-folder records in the root manifest (main)
MaxLines == 4       \* lines of a manifest given to parse_installed_apps
MaxLibLines == 4    \* lines of a root manifest given to get_steam_libraries
MaxNames == 3       \* entries of a compatdata directory given to the scanner

RECURSIVE Concat(_)
Concat(ss) == IF ss = <<>> THEN <<>> ELSE Head(ss) \o Concat(Tail(ss))

\* a text of the given lines, each ended by "\n"
RECURSIVE JoinLines(_)
JoinLines(ls) ==
    IF ls = <<>> THEN <<>> ELSE Head(ls) \o <<"\n">> \o JoinLines(Tail(ls))

Quoted(s) == <<Q>> \o s \o <<Q>>

\* "<key>"<tab><tab>"<value>", indented
KV(k, v) == <<"\t", "\t">> \o Quoted(k) \o <<"\t", "\t">> \o Quoted(v)

W_PATH == <<"p", "a", "t", "h">>
W_APPS == <<"a", "p", "p", "s">>

\* $HOME, and the two places main looks for Steam in
HOME_DIR == <<"/", "h">>
REGULAR_PATH == PathJoin(HOME_DIR, REGULAR_REL)
FLATPAK_PATH == PathJoin(HOME_DIR, FLATPAK_REL)

\* further libraries: /a and /b are there, /n is not
P_A == <<"/", "a">>
P_B == <<"/", "b">>
P_NONE == <<"/", "n">>

\* sequences over S of length at most n
SeqsUpTo(S, n) == UNION {[1..k -> S] : k \in 0..n}

\* sequences over S of length at most n with no element twice
DistinctSeqsUpTo(S, n) ==
    {q \in SeqsUpTo(S, n) : \A i, j \in DOMAIN q : q[i] = q[j] => i = j}

AppLines(ids) == [i \in DOMAIN ids |-> <<"\t">> \o KV(to_string(ids[i]), <<"1">>)]

\* one record of libraryfolders.vdf: its key, its path, its apps
Block(b) ==
    << <<"\t">> \o Quoted(<<"0">>),
       <<"\t", "{">>,
       KV(W_PATH, b.path),
       <<"\t", "\t">> \o Quoted(W_APPS),
       <<"\t", "\t", "{">> >>
    \o AppLines(b.apps)
    \o << <<"\t", "\t", "}">>,
          <<"\t", "}">> >>

\* a libraryfolders.vdf with the given records
Manifest(blocks) ==
    JoinLines(<< Quoted(<<"l", "i", "b">>), <<"{">> >>
              \o Concat([i \in DOMAIN blocks |-> Block(blocks[i])])
              \o << <<"}">> >>)

\* identifiers of applications, for the manifests and the listings
APP_A == U32(440)
APP_B == U32(570)
APP_C == U32(12345)

BLOCKS(root) ==
    { [path |-> root, apps |-> <<APP_A>>],
      [path |-> P_A, apps |-> <<APP_B>>],
      [path |-> P_B, apps |-> <<>>],
      [path |-> P_NONE, apps |-> <<APP_C>>] }

ROOT_MANIFESTS(root) ==
    {Err} \cup {Ok(Manifest(bs)) : bs \in SeqsUpTo(BLOCKS(root), MaxBlocks)}

\* /a's own manifest is readable, /b's is not
A_MANIFEST == Manifest(<< [path |-> P_A, apps |-> <<APP_B, U32(PROTON_9)>>] >>)

N_ZERO == <<"0">>
N_ZEROS == <<"0", "0">>
N_ABC == <<"a", "b", "c">>

ROOT_LISTINGS ==
    { Err,
      Ok(<<N_ZERO, to_string(APP_A), N_ABC, N_ZEROS>>),
      Ok(<<to_string(U32(PROTON_EXPERIMENTAL)), to_string(APP_C)>>) }

A_LISTINGS == { Ok(<<to_string(APP_A)>>), Ok(<<to_string(U32(PROTON_9)), to_string(APP_B)>>) }

B_LISTING == <<to_string(APP_C)>>

File(path, file) == IF file.ok THEN Components(path) :> file.val ELSE <<>>

\* the names right under the directory c, among the entries `keys`
ChildrenOf(keys, c) ==
    {k[Len(c) + 1] : k \in {k \in keys : Len(k) > Len(c) /\ SubSeq(k, 1, Len(c)) = c}}

\* the elements of S in an order
SomeOrder(S) ==
    CHOOSE o \in [1..Cardinality(S) -> S] : \A x \in S : \E i \in DOMAIN o : o[i] = x

\* the filesystem of the given files and listed directories, with the
\* directories above them, each listing what it holds, and the working
\* directory
Tree(files, listings, cwd) ==
    LET keys  == DOMAIN files \cup DOMAIN listings \cup {cwd}
        above == UNION {{SubSeq(k, 1, n) : n \in 1..(Len(k) - 1)} : k \in keys}
                 \cup {cwd}
    IN  [files |-> files,
         dirs  |-> listings @@ [c \in above \ DOMAIN listings |->
                                  SomeOrder(ChildrenOf(keys, c))],
         cwd   |-> cwd]

\* the filesystem of a run with Steam at `root`: the libraries /a and /b are
\* there, /a's own manifest is readable, /b has none; `beside` lists what
\* else there is; the program is run from $HOME
MkFs(root, root_manifest, root_listing, a_listing, beside) ==
    Tree(File(PathJoin(root, MANIFEST_REL), root_manifest)
           @@ File(PathJoin(P_A, MANIFEST_REL), Ok(A_MANIFEST)),
         File(PathJoin(root, COMPATDATA_REL), root_listing)
           @@ File(PathJoin(P_A, COMPATDATA_REL), a_listing)
           @@ File(PathJoin(P_B, COMPATDATA_REL), Ok(B_LISTING))
           @@ beside,
         Components(HOME_DIR))

\* Steam at the regular path alone; and Steam at the flatpak path, with a
\* regular installation beside it
FILESYSTEMS ==
    {MkFs(REGULAR_PATH, m, rl, al, <<>>) :
        m \in ROOT_MANIFESTS(REGULAR_PATH), rl \in ROOT_LISTINGS, al \in A_LISTINGS}
    \cup
    {MkFs(FLATPAK_PATH, m,
          Ok(<<to_string(U32(PROTON_EXPERIMENTAL)), to_string(APP_C)>>),
          Ok(<<to_string(APP_A)>>),
          File(PathJoin(REGULAR_PATH, COMPATDATA_REL), Ok(<<to_string(APP_B)>>))) :
        m \in ROOT_MANIFESTS(FLATPAK_PATH)}

\* the body {"<key>": <app_data>}
Doc(key, app_data) == RespJson(JObj(key :> app_data))

AppData(success, data) == JObj((K_SUCCESS :> success) @@ (K_DATA :> data))

\* what response.text() gives in a run (a list: the values are of many
\* shapes)
MAIN_TEXTS(app_id) ==
    << RespNoText,
       Doc(to_string(app_id), AppData(JBool(TRUE), JObj(K_NAME :> JStr("Game")))),
       Doc(to_string(app_id), JObj(K_SUCCESS :> JBool(FALSE))) >>

\* the responses fetch_app_info is tried on
ALL_RESPONSES(app_id) ==
    << RespErr >> \o MAIN_TEXTS(app_id) \o
    << RespNotJson,
      RespJson(JArr(<<>>)),
      RespJson(JStr("x")),
      RespJson(JObj(<<>>)),
      Doc(<<"0">> \o to_string(app_id), AppData(JBool(TRUE), JObj(K_NAME :> JStr("Game")))),
      Doc(to_string(app_id), JNull),
      Doc(to_string(app_id), JObj(K_DATA :> JObj(K_NAME :> JStr("Game")))),
      Doc(to_string(app_id), AppData(JStr("true"), JObj(K_NAME :> JStr("Game")))),
      Doc(to_string(app_id), AppData(JNum(1), JObj(K_NAME :> JStr("Game")))),
      Doc(to_string(app_id), JObj(K_SUCCESS :> JBool(TRUE))),
      Doc(to_string(app_id), AppData(JBool(TRUE), JStr("Game"))),
      Doc(to_string(app_id), AppData(JBool(TRUE), JObj(K_NAME :> JNum(7)))),
      Doc(to_string(app_id), AppData(JBool(FALSE), JObj(K_NAME :> JStr("Game")))) >>

\* get_steam_libraries(f, path) for each filesystem of a run and each path
\* main may settle on, tabulated: the function is pure and the filesystem
\* never changes, so that a run looks its value up instead of computing it
\* at every state
DISCOVERED ==
    [f \in FILESYSTEMS |->
        (REGULAR_PATH :> get_steam_libraries(f, REGULAR_PATH))
        @@ (FLATPAK_PATH :> get_steam_libraries(f, FLATPAK_PATH))]

\* scan_compatdata_dirs(f, path) for each filesystem of a run and each path
\* that can be a library of it, tabulated likewise
SCANNED ==
    [f \in FILESYSTEMS |->
        (REGULAR_PATH :> scan_compatdata_dirs(f, REGULAR_PATH))
        @@ (FLATPAK_PATH :> scan_compatdata_dirs(f, FLATPAK_PATH))
        @@ (P_A :> scan_compatdata_dirs(f, P_A))
        @@ (P_B :> scan_compatdata_dirs(f, P_B))]

-----------------------------------------------------------------------------
(* main *)

Line(kind, app_id, text, status) ==
    [kind |-> kind, app_id |-> app_id, text |-> text, status |-> status]

NO_ID == <<0, 0>>

RECURSIVE UnionInstalled(_)
UnionInstalled(libs) ==
    IF libs = <<>> THEN {}
    ELSE Head(libs).installed_apps \cup UnionInstalled(Tail(libs))

RECURSIVE LibraryInfoLines(_)
LibraryInfoLines(libs) ==
    IF libs = <<>> THEN <<>>
    ELSE <<Line("info_library", NO_ID, Head(libs).path, "")>>
         \o LibraryInfoLines(Tail(libs))

RECURSIVE ScanAll(_, _)
ScanAll(f, libs) ==
    IF libs = <<>> THEN <<>>
    ELSE SCANNED[f][Head(libs).path] \o ScanAll(f, Tail(libs))

\* the entry the for loop is at
Entry == all_compatdata[idx]

\* IsInstalled against the root library alone
IsInstalled_RootOnly(app_id) == app_id \in libraries[1].installed_apps

IsInstalled(app_id) == app_id \in all_installed_apps

IsProton(app_id) == app_id \in DOMAIN PROTON_VERSIONS

StatusOf(is_installed) == IF is_installed THEN "INSTALLED" ELSE "NOT INSTALLED"

\* the line the match on fetch_app_info's value prints
ReportLine(app_id, result, is_installed) ==
    IF result.some
    THEN Line("report", app_id,
              IF result.val[1] THEN result.val[2] ELSE "Unknown Application",
              StatusOf(is_installed))
    ELSE Line("report", app_id, "Failed to fetch app info", StatusOf(is_installed))

\* lines 40-55: $HOME, fatal when it is not set; the Steam path; the banner
Start ==
    /\ pc = "begin"
    /\ IF env.ok
       THEN /\ main_steam_path' = SteamPath(env.val, fs)
            /\ stdout' = <<Line("banner", NO_ID, "Steam Compatdata Analyzer", ""),
                           Line("info_path", NO_ID, SteamPath(env.val, fs), "")>>
            /\ pc' = "start"
            /\ UNCHANGED stderr
       ELSE /\ pc' = "failed"
            /\ stderr' = <<"env::VarError">>
            /\ UNCHANGED <<main_steam_path, stdout>>
    /\ UNCHANGED <<fs, env, libraries, all_installed_apps, all_compatdata,
                   proton_versions_found, idx, lookup, inflight, requests,
                   since_sleep, delays, arg, ret>>

\* lines 57-64: discovery, fatal when it fails
Discover ==
    /\ pc = "start"
    /\ LET r == DISCOVERED[fs][main_steam_path]
       IN  IF r.ok
           THEN /\ libraries' = r.val
                /\ all_installed_apps' = UnionInstalled(r.val)
                /\ stdout' = stdout
                     \o <<Line("info_found", U32(Len(r.val)), "", "")>>
                     \o LibraryInfoLines(r.val)
                /\ pc' = "scan"
                /\ UNCHANGED stderr
           ELSE /\ pc' = "failed"
                /\ stderr' = <<"io::Error">>
                /\ UNCHANGED <<libraries, all_installed_apps, stdout>>
    /\ UNCHANGED <<fs, env, main_steam_path, all_compatdata, proton_versions_found,
                   idx, lookup, inflight, requests, since_sleep, delays, arg, ret>>

\* lines 66-75: the compatdata of every library, in the libraries' order
Scan ==
    /\ pc = "scan"
    /\ all_compatdata' = ScanAll(fs, libraries)
    /\ idx' = 1
    /\ stdout' = Append(stdout, Line("header", NO_ID, "", ""))
    /\ pc' = IF ScanAll(fs, libraries) = <<>> THEN "summary" ELSE "entry"
    /\ UNCHANGED <<fs, env, main_steam_path, stderr, libraries, all_installed_apps, proton_versions_found,
                   lookup, inflight, requests, since_sleep, delays, arg, ret>>

\* lines 78-86 and 217-230: the entry's flags, then fetch_app_info up to its
\* return (a known Proton version) or its request
BeginEntry ==
    /\ pc = "entry"
    /\ proton_versions_found' =
         IF IsProton(Entry.app_id)
         THEN proton_versions_found \cup {Entry.app_id}
         ELSE proton_versions_found
    /\ IF SendsRequest(Entry.app_id)
       THEN /\ requests' = Append(requests, Url(Entry.app_id))
            /\ inflight' = inflight + 1
            /\ since_sleep' = since_sleep + 1
            /\ stdout' = Append(stdout,
                 Line("fetched", Entry.app_id, Url(Entry.app_id).appids, ""))
            /\ pc' = "await"
            /\ UNCHANGED lookup
       ELSE /\ lookup' = fetch_app_info(Entry.app_id, RespErr)
            /\ pc' = "report"
            /\ UNCHANGED <<requests, inflight, since_sleep, stdout>>
    /\ UNCHANGED <<fs, env, main_steam_path, stderr, libraries, all_installed_apps, all_compatdata, idx,
                   delays, arg, ret>>

\* line 230: reqwest::get(&url).await returns, with a response whose body
\* is yet to come, or with an error and fetch_app_info returns None
GetReturns(ok) ==
    /\ pc = "await"
    /\ IF ok
       THEN /\ pc' = "await_text"
            /\ UNCHANGED <<lookup, inflight>>
       ELSE /\ lookup' = fetch_app_info(Entry.app_id, RespErr)
            /\ inflight' = inflight - 1
            /\ pc' = "report"
    /\ UNCHANGED <<fs, env, main_steam_path, stderr, libraries, all_installed_apps, all_compatdata,
                   proton_versions_found, idx, requests, since_sleep, delays,
                   stdout, arg, ret>>

\* TextReturns with a failed lookup ending the run
TextReturns_Aborts(resp) ==
    /\ pc = "await_text"
    /\ resp.kind # "err"
    /\ lookup' = fetch_app_info(Entry.app_id, resp)
    /\ inflight' = inflight - 1
    /\ pc' = IF fetch_app_info(Entry.app_id, resp).some THEN "report" ELSE "failed"
    /\ UNCHANGED <<fs, env, main_steam_path, stderr, libraries, all_installed_apps, all_compatdata,
                   proton_versions_found, idx, requests, since_sleep, delays,
                   stdout, arg, ret>>

\* lines 232-250: response.text().await returns and fetch_app_info with it
TextReturns(resp) ==
    /\ pc = "await_text"
    /\ resp.kind # "err"
    /\ lookup' = fetch_app_info(Entry.app_id, resp)
    /\ inflight' = inflight - 1
    /\ pc' = "report"
    /\ UNCHANGED <<fs, env, main_steam_path, stderr, libraries, all_installed_apps, all_compatdata,
                   proton_versions_found, idx, requests, since_sleep, delays,
                   stdout, arg, ret>>

\* Report with the loop continuing, undelayed, after a failed lookup
Report_SkipsDelay ==
    /\ pc = "report"
    /\ stdout' = Append(stdout,
         ReportLine(Entry.app_id, lookup, IsInstalled(Entry.app_id)))
    /\ IF lookup.some
       THEN pc' = "sleep" /\ UNCHANGED idx
       ELSE /\ idx' = idx + 1
            /\ pc' = IF idx + 1 > Len(all_compatdata) THEN "summary" ELSE "entry"
    /\ UNCHANGED <<fs, env, main_steam_path, stderr, libraries, all_installed_apps, all_compatdata,
                   proton_versions_found, lookup, inflight, requests,
                   since_sleep, delays, arg, ret>>

\* lines 86-123: the entry's line of the report
Report ==
    /\ pc = "report"
    /\ stdout' = Append(stdout,
         ReportLine(Entry.app_id, lookup, IsInstalled(Entry.app_id)))
    /\ pc' = "sleep"
    /\ UNCHANGED <<fs, env, main_steam_path, stderr, libraries, all_installed_apps, all_compatdata,
                   proton_versions_found, idx, lookup, inflight, requests,
                   since_sleep, delays, arg, ret>>

\* line 126, and the loop's step
Sleep ==
    /\ pc = "sleep"
    /\ since_sleep' = 0
    /\ delays' = delays + 1
    /\ idx' = idx + 1
    /\ pc' = IF idx + 1 > Len(all_compatdata) THEN "summary" ELSE "entry"
    /\ UNCHANGED <<fs, env, main_steam_path, stderr, libraries, all_installed_apps, all_compatdata,
                   proton_versions_found, lookup, inflight, requests, stdout,
                   arg, ret>>

\* the orders in which a HashSet's iterator may yield its elements
Orders(S) ==
    {o \in [1..Cardinality(S) -> S] : \A x \in S : \E i \in DOMAIN o : o[i] = x}

ProtonLines(order) ==
    [i \in DOMAIN order |->
        Line("proton", order[i], PROTON_VERSIONS[order[i]], "")]

\* lines 129-141
Summary ==
    /\ pc = "summary"
    /\ \E order \in Orders(proton_versions_found) :
         stdout' = stdout
           \o (IF proton_versions_found # {}
               THEN <<Line("proton_header", NO_ID, "", "")>> \o ProtonLines(order)
               ELSE <<>>)
           \o <<Line("complete", NO_ID, "Analysis complete!", "")>>
    /\ pc' = "done"
    /\ UNCHANGED <<fs, env, main_steam_path, stderr, libraries, all_installed_apps, all_compatdata,
                   proton_versions_found, idx, lookup, inflight, requests,
                   since_sleep, delays, arg, ret>>

-----------------------------------------------------------------------------
(* The run of main *)

NotCalled == [fn |-> "none", val |-> <<>>]

Init ==
    /\ fs \in FILESYSTEMS
    /\ env \in {Err, Ok(HOME_DIR)}     \* $HOME unset (or not Unicode), or set
    /\ pc = "begin"
    /\ main_steam_path = <<>>
    /\ libraries = <<>>
    /\ all_installed_apps = {}
    /\ all_compatdata = <<>>
    /\ proton_versions_found = {}
    /\ idx = 0
    /\ lookup = None
    /\ inflight = 0
    /\ requests = <<>>
    /\ since_sleep = 0
    /\ delays = 0
    /\ stdout = <<>>
    /\ stderr = <<>>
    /\ arg = NotCalled
    /\ ret = NotCalled

\* the request of the entry is answered, or fails
Responds == \E ok \in BOOLEAN : GetReturns(ok)

\* the body of the answer comes, or fails to
Delivers ==
    /\ pc = "await_text"
    /\ \E i \in DOMAIN MAIN_TEXTS(Entry.app_id) :
         TextReturns(MAIN_TEXTS(Entry.app_id)[i])

Next ==
    \/ Start
    \/ Discover
    \/ Scan
    \/ BeginEntry
    \/ Responds
    \/ Delivers
    \/ Report
    \/ Sleep
    \/ Summary

Spec == Init /\ [][Next]_vars

\* main runs to its end, provided every request returns
FairSpec == Spec /\ WF_vars(Next)

-----------------------------------------------------------------------------
(* The functions on their own: Init draws the input, one action calls *)

\* main at rest, beside a function under test
Idle ==
    /\ env = Err
    /\ pc = "idle"
    /\ main_steam_path = <<>>
    /\ libraries = <<>>
    /\ all_installed_apps = {}
    /\ all_compatdata = <<>>
    /\ proton_versions_found = {}
    /\ idx = 0
    /\ lookup = None
    /\ inflight = 0
    /\ requests = <<>>
    /\ since_sleep = 0
    /\ delays = 0
    /\ stdout = <<>>
    /\ stderr = <<>>

Called(fn) == ret.fn = fn

\* ---- parse_installed_apps

L_APPS == <<"\f">> \o Quoted(W_APPS) \o <<"\r">>
L_CLOSE == <<"\t", "}", "U+00A0">>
L_KEY_A == KV(to_string(APP_A), <<"1">>)
L_KEY_B == Quoted(to_string(APP_B))
L_PATH == KV(W_PATH, P_A)
L_BARE == to_string(APP_C)

PARSE_LINES == {L_APPS, L_CLOSE, L_KEY_A, L_KEY_B, L_PATH, L_BARE}

PARSE_FILES == {Err} \cup {Ok(JoinLines(ls)) : ls \in SeqsUpTo(PARSE_LINES, MaxLines)}

CONFIG_PATH == PathJoin(P_A, MANIFEST_REL)

InitParse ==
    /\ Idle
    /\ \E file \in PARSE_FILES : fs = Tree(File(CONFIG_PATH, file), <<>>, Components(P_A))
    /\ arg = [fn |-> "parse_installed_apps", val |-> CONFIG_PATH]
    /\ ret = NotCalled

CallParse ==
    /\ arg.fn = "parse_installed_apps"
    /\ ret = NotCalled
    /\ ret' = [fn |-> arg.fn, val |-> parse_installed_apps(fs, arg.val)]
    /\ UNCHANGED <<mainVars, arg>>

SpecParse == InitParse /\ [][CallParse]_vars

\* ---- scan_compatdata_dirs

N_PLUS == <<"+", "5">>
N_MINUS == <<"-", "5">>
N_LEAD == <<"0">> \o to_string(APP_A)
N_U32_MAX == <<"4", "2", "9", "4", "9", "6", "7", "2", "9", "5">>
N_U32_OVER == <<"4", "2", "9", "4", "9", "6", "7", "2", "9", "6">>
N_BAD == <<"4", BAD_BYTE>>
N_MIXED == <<"4", "4", "a">>

SCAN_NAMES ==
    {N_ZERO, N_ZEROS, N_ABC, to_string(APP_A), N_LEAD, N_PLUS, N_MINUS,
     N_U32_MAX, N_U32_OVER, N_BAD, N_MIXED}

SCAN_LISTINGS == {Err} \cup {Ok(ns) : ns \in DistinctSeqsUpTo(SCAN_NAMES, MaxNames)}

InitScan ==
    /\ Idle
    /\ \E listing \in SCAN_LISTINGS :
         fs = Tree(<<>>, File(PathJoin(P_A, COMPATDATA_REL), listing), Components(P_A))
    /\ arg = [fn |-> "scan_compatdata_dirs", val |-> P_A]
    /\ ret = NotCalled

CallScan ==
    /\ arg.fn = "scan_compatdata_dirs"
    /\ ret = NotCalled
    /\ ret' = [fn |-> arg.fn, val |-> scan_compatdata_dirs(fs, arg.val)]
    /\ UNCHANGED <<mainVars, arg>>

SpecScan == InitScan /\ [][CallScan]_vars

\* ---- get_steam_libraries

L_PATH_B == KV(W_PATH, P_B)
L_PATH_NONE == KV(W_PATH, P_NONE)
\* the root, spelled with a trailing separator
L_PATH_ROOT == KV(W_PATH, REGULAR_PATH \o <<"/">>)
L_PATH_ONLY == <<"\t", "\t">> \o Quoted(W_PATH)
\* /a's manifest, a regular file, spelled as a directory
L_PATH_FILE == KV(W_PATH, PathJoin(P_A, MANIFEST_REL) \o <<"/">>)
\* /b, spelled from the working directory by way of /a
L_PATH_UP == KV(W_PATH, <<".", ".", "/", "a", "/", ".", ".", "/", "b">>)

LIB_LINES ==
    {L_PATH, L_PATH_B, L_PATH_NONE, L_PATH_ROOT, L_PATH_ONLY, L_PATH_FILE,
     L_PATH_UP, L_CLOSE}

LIB_MANIFESTS == {Err} \cup {Ok(JoinLines(ls)) : ls \in SeqsUpTo(LIB_LINES, MaxLibLines)}

InitLibs ==
    /\ Idle
    /\ \E m \in LIB_MANIFESTS : fs = MkFs(REGULAR_PATH, m, Err, Ok(<<>>), <<>>)
    /\ arg = [fn |-> "get_steam_libraries", val |-> REGULAR_PATH]
    /\ ret = NotCalled

CallLibs ==
    /\ arg.fn = "get_steam_libraries"
    /\ ret = NotCalled
    /\ ret' = [fn |-> arg.fn, val |-> get_steam_libraries(fs, arg.val)]
    /\ UNCHANGED <<mainVars, arg>>

SpecLibs == InitLibs /\ [][CallLibs]_vars

\* ---- fetch_app_info

FETCH_IDS ==
    {APP_A, APP_C, <<0, 0>>, <<Limb - 1, Limb - 1>>,
     U32(PROTON_EXPERIMENTAL), U32(PROTON_9)}

InitFetch ==
    /\ Idle
    /\ fs = Tree(<<>>, <<>>, ROOT_DIR)
    /\ \E app_id \in FETCH_IDS : \E i \in DOMAIN ALL_RESPONSES(app_id) :
         arg = [fn |-> "fetch_app_info", val |-> <<app_id, ALL_RESPONSES(app_id)[i]>>]
    /\ ret = NotCalled

\* lines 217-230: the call, up to its return (a known Proton version) or its
\* request; arg holds the response the request will get
CallFetch ==
    /\ arg.fn = "fetch_app_info"
    /\ ret = NotCalled
    /\ pc = "idle"
    /\ IF SendsRequest(arg.val[1])
       THEN /\ stdout' = Append(stdout,
                 Line("fetched", arg.val[1], Url(arg.val[1]).appids, ""))
            /\ requests' = Append(requests, Url(arg.val[1]))
            /\ inflight' = inflight + 1
            /\ since_sleep' = since_sleep + 1
            /\ pc' = "await"
            /\ UNCHANGED ret
       ELSE /\ ret' = [fn |-> arg.fn, val |-> fetch_app_info(arg.val[1], arg.val[2])]
            /\ UNCHANGED <<stdout, requests, inflight, since_sleep, pc>>
    /\ UNCHANGED <<fs, env, main_steam_path, libraries, all_installed_apps,
                   all_compatdata, proton_versions_found, idx, lookup,
                   delays, stderr, arg>>

\* line 230: reqwest::get(&url).await returns, with a response whose body
\* is yet to come, or with an error and the call returns None
FetchGetReturns ==
    /\ arg.fn = "fetch_app_info"
    /\ pc = "await"
    /\ IF arg.val[2].kind # "err"
       THEN /\ pc' = "await_text"
            /\ UNCHANGED <<ret, inflight>>
       ELSE /\ ret' = [fn |-> arg.fn, val |-> fetch_app_info(arg.val[1], arg.val[2])]
            /\ inflight' = inflight - 1
            /\ pc' = "idle"
    /\ UNCHANGED <<fs, env, main_steam_path, libraries, all_installed_apps,
                   all_compatdata, proton_versions_found, idx, lookup, requests,
                   since_sleep, delays, stdout, stderr, arg>>

\* lines 232-250: response.text().await returns and the call with it
FetchTextReturns ==
    /\ arg.fn = "fetch_app_info"
    /\ pc = "await_text"
    /\ ret' = [fn |-> arg.fn, val |-> fetch_app_info(arg.val[1], arg.val[2])]
    /\ inflight' = inflight - 1
    /\ pc' = "idle"
    /\ UNCHANGED <<fs, env, main_steam_path, libraries, all_installed_apps,
                   all_compatdata, proton_versions_found, idx, lookup, requests,
                   since_sleep, delays, stdout, stderr, arg>>

SpecFetch ==
    InitFetch /\ [][CallFetch \/ FetchGetReturns \/ FetchTextReturns]_vars

-----------------------------------------------------------------------------
(* Properties of scan_compatdata_dirs *)

\* a decimal numeral: an optional "+", then one or more digits
IsNumeral(name) ==
    LET d == IF name # <<>> /\ Head(name) = "+" THEN Tail(name) ELSE name
    IN  d # <<>> /\ \A i \in 1..Len(d) : IsDigit(d[i])

NumeralDigits(name) == IF Head(name) = "+" THEN Tail(name) ELSE name

\* the digits without their leading zeros ("0" for zero)
RECURSIVE Canonical(_)
Canonical(d) ==
    IF Len(d) > 1 /\ Head(d) = "0" THEN Canonical(Tail(d)) ELSE d

\* d <= m, for numerals of the same length
LexLeq(d, m) ==
    \A i \in 1..Len(d) :
        (\A j \in 1..(i - 1) : d[j] = m[j]) => DigitVal(d[i]) <= DigitVal(m[i])

\* the numeral's value is at most 2^32 - 1
FitsU32(d) ==
    \/ Len(Canonical(d)) < Len(N_U32_MAX)
    \/ Len(Canonical(d)) = Len(N_U32_MAX) /\ LexLeq(Canonical(d), N_U32_MAX)

\* the names the claim counts in: the integers other than "0"
QualifiesAsClaimed(name) == IsNumeral(name) /\ name # N_ZERO

\* the names the scanner counts in: those, when they fit a u32
Qualifies(name) == QualifiesAsClaimed(name) /\ FitsU32(NumeralDigits(name))

ScannedNames ==
    LET entries == read_dir(fs, PathJoin(arg.val, COMPATDATA_REL))
    IN  IF entries.ok THEN entries.val ELSE <<>>

\* the entries are those of the names q, one each, in order, each with the
\* name's path and the name's value
EntriesAre(entries, q) ==
    /\ Len(entries) = Len(q)
    /\ \A i \in 1..Len(q) :
         /\ i <= Len(entries)
         /\ entries[i].path = PathJoin(PathJoin(arg.val, COMPATDATA_REL), q[i])
         /\ to_string(entries[i].app_id) = Canonical(NumeralDigits(q[i]))

\* C1, as claimed: every name that is a non-negative integer other than "0"
\* yields exactly one entry carrying that identifier, whatever its value (also
\* above 2^32 - 1), and "0" and the non-numeric names yield none.
C1_EveryIntegerNameYieldsAnEntry ==
    Called("scan_compatdata_dirs") =>
        EntriesAre(ret.val, SelectSeq(ScannedNames, QualifiesAsClaimed))

\* C1, amended: every name parse::<u32> accepts (an optional "+", decimal
\* digits, a value of at most 2^32 - 1) other than the literal "0" yields
\* exactly one entry, in listing order, carrying the name's value; "0", the
\* names above 2^32 - 1 and the non-numeric names yield none.
C1_EveryU32NameYieldsAnEntry ==
    Called("scan_compatdata_dirs") =>
        EntriesAre(ret.val, SelectSeq(ScannedNames, Qualifies))

\* a listing with a leading zero, a value above 2^32 - 1 and a "+" sign,
\* scanned to the two entries that fit
C1_Witness ==
    /\ Called("scan_compatdata_dirs")
    /\ ScannedNames = <<N_LEAD, N_U32_OVER, N_PLUS>>
    /\ Len(ret.val) = 2
    /\ ret.val[1].app_id = APP_A

\* C2: the identifier 0 is never a compatibility entry: no scanned entry has
\* app_id = 0, and main neither requests nor reports identifier 0.
C2_ZeroIsNeverAnEntry ==
    /\ \A i \in DOMAIN all_compatdata : all_compatdata[i].app_id # <<0, 0>>
    /\ \A i \in DOMAIN requests : requests[i].appids # <<"0">>
    /\ \A i \in DOMAIN stdout :
         stdout[i].kind = "report" => stdout[i].app_id # <<0, 0>>

-----------------------------------------------------------------------------
(* Properties of get_steam_libraries *)

\* the elements of a finite set of numbers, ascending
Ascending(S) ==
    [k \in 1..Cardinality(S) |->
        CHOOSE x \in S : Cardinality({y \in S : y < x}) = k - 1]

\* the root library's path: the argument of the function on its own, the
\* path main settles on in a run
RootPath ==
    IF arg.fn = "get_steam_libraries" THEN arg.val ELSE SteamPath(env.val, fs)

RootManifest == read_to_string(fs, PathJoin(RootPath, MANIFEST_REL))

RootLines == IF RootManifest.ok THEN Lines(RootManifest.val) ELSE <<>>

\* a "path" line with a value: the fourth of its quote-split fields
DeclaresPath(line) ==
    /\ StartsWith(Trim(line), Quoted(W_PATH))
    /\ Len(Split(Trim(line), Q)) >= 4

DeclaredPath(line) == Split(Trim(line), Q)[4]

IsClose(line) == Trim(line) = <<"}">>

\* exists on the filesystem and is not the root
Accepted(path) == exists(fs, path) /\ Components(path) # Components(RootPath)

PathsOf(libs) == [i \in DOMAIN libs |-> libs[i].path]

\* the paths the "path" lines declare, in manifest order
DeclaredPaths ==
    LET decl == SelectSeq(RootLines, DeclaresPath)
    IN  [i \in DOMAIN decl |-> DeclaredPath(decl[i])]

\* what a line is to the discovery: a closing brace or not, and the path it
\* declares, if any (the line is trimmed once)
LineKind(line) ==
    CHOOSE out \in {[close |-> t = <<"}">>,
                     path |-> IF StartsWith(t, Quoted(W_PATH)) /\ Len(Split(t, Q)) >= 4
                              THEN Some(Split(t, Q)[4])
                              ELSE None] : t \in {Trim(line)}} : TRUE

RECURSIVE KindsOf(_)
KindsOf(lines) ==
    IF lines = <<>> THEN <<>>
    ELSE <<LineKind(Head(lines))>> \o KindsOf(Tail(lines))

\* the closing-brace lines that end a record with a path in progress: a
\* "path" line comes before, with no other closing brace in between
RecordEnds(kinds) ==
    {i \in DOMAIN kinds :
        /\ kinds[i].close
        /\ \E j \in 1..(i - 1) :
             /\ kinds[j].path.some
             /\ \A k \in (j + 1)..(i - 1) : ~kinds[k].close}

\* the path in progress at line i: that of the last "path" line before it
PathInProgress(kinds, i) ==
    LET j == CHOOSE j \in 1..(i - 1) :
                /\ kinds[j].path.some
                /\ \A k \in (j + 1)..(i - 1) : ~kinds[k].path.some
    IN  kinds[j].path.val

RecordPathsOf(lines) ==
    CHOOSE out \in {[n \in 1..Cardinality(RecordEnds(kinds)) |->
                        PathInProgress(kinds, Ascending(RecordEnds(kinds))[n])] :
                    kinds \in {KindsOf(lines)}} : TRUE

RecordPaths == RecordPathsOf(RootLines)

\* the root, then the paths in progress at the closing braces of the root's
\* manifest that exist and are not the root
ClosedRecordsOf(f, root) ==
    LET content == read_to_string(f, PathJoin(root, MANIFEST_REL))
        lines == IF content.ok THEN Lines(content.val) ELSE <<>>
        Takes(path) == exists(f, path) /\ Components(path) # Components(root)
    IN  <<root>> \o SelectSeq(RecordPathsOf(lines), Takes)

\* for each filesystem of a run with $HOME set: whether the root manifest is
\* readable, the library paths its closed records give, and the additional
\* libraries among /a and /b whose own manifest is unreadable
OF_RUN ==
    [f \in FILESYSTEMS |->
        [readable |->
            read_to_string(f, PathJoin(SteamPath(HOME_DIR, f), MANIFEST_REL)).ok,
         paths |-> ClosedRecordsOf(f, SteamPath(HOME_DIR, f)),
         unreadable |->
            {path \in {P_A, P_B} :
                ~read_to_string(f, PathJoin(path, MANIFEST_REL)).ok}]]

\* C3, as claimed: with the root manifest readable, the result is the root
\* followed by exactly the paths the "path" lines declare that exist and
\* differ from the root, in manifest order.
C3_LibrariesAreTheDeclaredPaths ==
    (Called("get_steam_libraries") /\ RootManifest.ok) =>
        /\ ret.val.ok
        /\ PathsOf(ret.val.val) = <<RootPath>> \o SelectSeq(DeclaredPaths, Accepted)

\* C3, amended: with the root manifest readable, the result is the root
\* followed, in manifest order, by the path in progress at each closing-brace
\* line (the value of the last "path" line before it, no other closing brace
\* in between) that exists and differs from the root. A declared path that a
\* later "path" line replaces before the closing brace, or that no closing
\* brace follows, is not in the result; nor is a path that does not exist or
\* that equals the root.
C3_LibrariesAreTheClosedRecords ==
    (Called("get_steam_libraries") /\ RootManifest.ok) =>
        /\ ret.val.ok
        /\ PathsOf(ret.val.val) = ClosedRecordsOf(fs, arg.val)
        /\ PathsOf(ret.val.val) = <<RootPath>> \o SelectSeq(RecordPaths, Accepted)
        /\ \A i \in 2..Len(ret.val.val) : Accepted(ret.val.val[i].path)

\* a manifest declaring a path that does not exist, then one that does
C3_Witness ==
    /\ Called("get_steam_libraries")
    /\ RootManifest.ok
    /\ DeclaredPaths = <<P_NONE, P_A>>
    /\ PathsOf(ret.val.val) = <<REGULAR_PATH, P_A>>

-----------------------------------------------------------------------------
(* Properties of parse_installed_apps *)

ParsedFile == read_to_string(fs, arg.val)

ParsedLines == IF ParsedFile.ok THEN Lines(ParsedFile.val) ELSE <<>>

IsAppsLine(line) == Trim(line) = Quoted(W_APPS)

\* line i lies after an "apps" line and before the next closing brace
InAppsSection(lines, i) ==
    \E j \in 1..(i - 1) :
        /\ IsAppsLine(lines[j])
        /\ \A k \in (j + 1)..(i - 1) : ~IsClose(lines[k])

\* the index-1 quote-split field of a line that begins with a quote
KeyField(line) == Split(Trim(line), Q)[2]

\* the lines that give a key: in the section, beginning with a quote, and
\* their index-1 quote-split field an integer (a u32)
KeyLinesOf(lines) ==
    {i \in DOMAIN lines :
        /\ InAppsSection(lines, i)
        /\ ~IsClose(lines[i])
        /\ StartsWith(Trim(lines[i]), <<Q>>)
        /\ IsNumeral(KeyField(lines[i]))
        /\ FitsU32(NumeralDigits(KeyField(lines[i])))}

SectionKeysOf(lines) ==
    {Canonical(NumeralDigits(KeyField(lines[i]))) : i \in KeyLinesOf(lines)}

\* C5: the result is never an error, and is exactly the set of the integers
\* of the index-1 quote-split fields of the lines that begin with a quote and
\* lie after an "apps" line and before the next closing brace: empty for a
\* text with no "apps" line and for an unreadable file, and without the keys
\* of lines after the section is closed.
C5_InstalledAppsAreTheSectionKeys ==
    Called("parse_installed_apps") =>
        /\ ret.val.ok
        /\ {to_string(app_id) : app_id \in ret.val.val} = SectionKeysOf(ParsedLines)
        /\ (~ParsedFile.ok => ret.val.val = {})
        /\ ((\A i \in DOMAIN ParsedLines : ~IsAppsLine(ParsedLines[i]))
               => ret.val.val = {})

\* "apps", a key, the closing brace, another key: the first key alone
C5_Witness ==
    /\ Called("parse_installed_apps")
    /\ ParsedFile.ok
    /\ ParsedFile.val = JoinLines(<<L_APPS, L_KEY_A, L_CLOSE, L_KEY_B>>)
    /\ ret.val.val = {APP_A}

-----------------------------------------------------------------------------
(* Properties of fetch_app_info *)

FetchId == arg.val[1]

FetchResp == arg.val[2]

\* the body is a JSON object with the identifier's decimal form among its keys
HasKey ==
    /\ FetchResp.kind = "text"
    /\ FetchResp.json.ok
    /\ FetchResp.json.val.kind = "obj"
    /\ to_string(FetchId) \in DOMAIN FetchResp.json.val.val

AppDataOf == FetchResp.json.val.val[to_string(FetchId)]

\* the field `success` is there, a boolean, and true
Succeeded ==
    /\ AppDataOf.kind = "obj"
    /\ K_SUCCESS \in DOMAIN AppDataOf.val
    /\ AppDataOf.val[K_SUCCESS].kind = "bool"
    /\ AppDataOf.val[K_SUCCESS].val

\* data.name is there and a string
HasName ==
    /\ K_DATA \in DOMAIN AppDataOf.val
    /\ AppDataOf.val[K_DATA].kind = "obj"
    /\ K_NAME \in DOMAIN AppDataOf.val[K_DATA].val
    /\ AppDataOf.val[K_DATA].val[K_NAME].kind = "str"

\* C7: for an identifier not in the table the result is None exactly when the
\* request fails, the body is no text, no JSON, or lacks the identifier's key;
\* else (false, "Unknown Application") when `success` is absent, no boolean or
\* false; else (true, data.name), or (true, "Unknown") without a string name.
C7_EveryOutcomeHasOneResult ==
    (Called("fetch_app_info") /\ FetchId \notin {U32(PROTON_EXPERIMENTAL), U32(PROTON_9)}) =>
        /\ ~ret.val.some <=> ~HasKey
        /\ (HasKey /\ ~Succeeded) => ret.val = Some(<<FALSE, "Unknown Application">>)
        /\ (HasKey /\ Succeeded /\ HasName) =>
              ret.val = Some(<<TRUE, AppDataOf.val[K_DATA].val[K_NAME].val>>)
        /\ (HasKey /\ Succeeded /\ ~HasName) => ret.val = Some(<<TRUE, "Unknown">>)

\* the body {"12345": {"success": false}}
C7_Witness ==
    /\ Called("fetch_app_info")
    /\ FetchId = APP_C
    /\ FetchResp = Doc(to_string(APP_C), JObj(K_SUCCESS :> JBool(FALSE)))
    /\ ret.val = Some(<<FALSE, "Unknown Application">>)

-----------------------------------------------------------------------------
(* Properties of main *)

IsReport(line) == line.kind = "report"

Reports == SelectSeq(stdout, IsReport)

FAILED_TEXT == "Failed to fetch app info"

\* the entries whose lookup has begun
Begun ==
    CASE pc = "entry" -> idx - 1
      [] pc \in {"await", "await_text", "report", "sleep"} -> idx
      [] pc \in {"summary", "done"} -> Len(all_compatdata)
      [] OTHER -> 0

\* the entries whose line is printed
Reported ==
    CASE pc \in {"entry", "await", "await_text", "report"} -> idx - 1
      [] pc = "sleep" -> idx
      [] pc \in {"summary", "done"} -> Len(all_compatdata)
      [] OTHER -> 0

InTable(app_id) == app_id \in {U32(PROTON_EXPERIMENTAL), U32(PROTON_9)}

TableName(app_id) ==
    IF app_id = U32(PROTON_EXPERIMENTAL) THEN "Proton Experimental" ELSE "Proton 9.0"

Unreadable(path) == ~read_to_string(fs, PathJoin(path, MANIFEST_REL)).ok

\* C4: an unreadable root manifest fails discovery and ends the run before
\* any scan, lookup or report, and with $HOME set nothing else ends it early;
\* an accepted additional library whose own manifest is unreadable is
\* returned all the same, with an empty installed-app set (what discovery
\* returned is looked at when it returns: pc = "scan").
C4_ManifestFailuresAreAsymmetric ==
    /\ (env.ok /\ ~OF_RUN[fs].readable) =>
         /\ pc \in {"begin", "start", "failed"}
         /\ libraries = <<>> /\ all_compatdata = <<>>
         /\ requests = <<>> /\ Reports = <<>>
    /\ (env.ok /\ pc = "failed") =>
         (~OF_RUN[fs].readable /\ stderr = <<"io::Error">>)
    /\ pc \notin {"begin", "start", "failed"} => libraries # <<>>
    /\ pc = "scan" =>
         /\ PathsOf(libraries) = OF_RUN[fs].paths
         /\ \A i \in 2..Len(libraries) :
              libraries[i].path \in OF_RUN[fs].unreadable
                 => libraries[i].installed_apps = {}

\* a finished run with /b, whose manifest cannot be read, among its libraries
C4_Witness ==
    /\ pc = "done"
    /\ \E i \in 2..Len(libraries) :
         /\ libraries[i].path = P_B
         /\ Unreadable(P_B)
         /\ libraries[i].installed_apps = {}

\* C6: an identifier of the table is answered (true, the table's name) with
\* no request sent, so the requests sent are as many as the entries begun
\* whose identifier is not in the table, and none names a table identifier.
C6_TableEntriesSendNoRequest ==
    /\ (pc = "report" /\ InTable(Entry.app_id)) =>
         /\ lookup = Some(<<TRUE, TableName(Entry.app_id)>>)
         /\ since_sleep = 0
    /\ Len(requests) =
         Cardinality({i \in 1..Begun : ~InTable(all_compatdata[i].app_id)})
    /\ \A i \in DOMAIN requests :
         requests[i].appids \notin {to_string(U32(PROTON_EXPERIMENTAL)), to_string(U32(PROTON_9))}

\* a finished run over table entries and others
C6_Witness ==
    /\ pc = "done"
    /\ \E i \in DOMAIN all_compatdata : all_compatdata[i].app_id = U32(PROTON_EXPERIMENTAL)
    /\ \E i \in DOMAIN all_compatdata : all_compatdata[i].app_id = U32(PROTON_9)
    /\ Len(requests) = Len(all_compatdata) - 2
    /\ Len(requests) > 0

\* the scan has just ended
Scanned == pc \in {"entry", "summary"} /\ idx = 1

\* what C8 says of every state: the lines printed are those of the entries
\* done so far, in scan order (the libraries in discovery order, as the scan
\* left them); the line of an entry says "failed to fetch" exactly when its
\* lookup gave no data; and with $HOME set only a failed discovery ends the
\* run early
ReportsFollowTheScan ==
    /\ Len(Reports) = Reported
    /\ \A i \in 1..Len(Reports) :
         i <= Len(all_compatdata) /\ Reports[i].app_id = all_compatdata[i].app_id
    /\ Scanned =>
         all_compatdata =
           Concat([i \in DOMAIN libraries |-> SCANNED[fs][libraries[i].path]])
    /\ pc = "sleep" =>
         (Reports[Len(Reports)].text = FAILED_TEXT <=> ~lookup.some)
    /\ (env.ok /\ pc = "failed") => ~OF_RUN[fs].readable

\* once scanned, the entries and the libraries stay as they are
ScanIsKept ==
    pc \in {"entry", "await", "await_text", "report", "sleep", "summary"} =>
        (all_compatdata' = all_compatdata /\ libraries' = libraries)

\* C8: a failed lookup never ends the run: after discovery every scanned
\* entry is looked up and reported once, in scan order, a failed lookup gives
\* that entry's "failed to fetch" line, and the run reaches "Analysis
\* complete" when every lookup returns.
C8_FailedLookupsNeverAbort ==
    /\ []ReportsFollowTheScan
    /\ [][ScanIsKept]_vars
    /\ (pc = "scan") ~> (pc = "done" /\ stdout[Len(stdout)].kind = "complete")

\* a finished run with a failed lookup and, after it, a successful one
C8_Witness ==
    /\ pc = "done"
    /\ \E i, j \in DOMAIN Reports :
         /\ i < j
         /\ Reports[i].text = FAILED_TEXT
         /\ Reports[j].text = "Game"

\* C9: at most one request is in flight, and only while main awaits its
\* response or the response's text; an
\* entry's lookup begins only when the entries before it are reported; the
\* delay is taken after every entry, so no two requests go out without a
\* delay between them.
C9_LookupsAreSequentialAndDelayed ==
    /\ inflight \in {0, 1}
    /\ inflight = 1 <=> pc \in {"await", "await_text"}
    /\ since_sleep <= 1
    /\ pc \in {"entry", "await", "await_text", "report", "sleep"} =>
         /\ delays = idx - 1
         /\ Len(requests) <= Len(Reports) + 1
    /\ pc \in {"entry", "await", "await_text", "report"} => Len(Reports) = idx - 1
    /\ pc \in {"summary", "done"} => delays = Len(all_compatdata)

\* a second request in flight, after an entry whose lookup failed
C9_Witness ==
    /\ pc = "await"
    /\ Len(requests) >= 2
    /\ Reports[Len(Reports)].text = FAILED_TEXT
    /\ delays = Len(Reports)

\* C10: an entry is reported INSTALLED exactly when its identifier is in the
\* installed set of at least one discovered library, whichever library holds
\* the entry and whatever its lookup gave.
C10_InstalledFlagUsesTheUnion ==
    \A k \in DOMAIN Reports :
        /\ Reports[k].status \in {"INSTALLED", "NOT INSTALLED"}
        /\ Reports[k].status = "INSTALLED" <=>
             \E i \in DOMAIN libraries : Reports[k].app_id \in libraries[i].installed_apps

\* an entry under /a, not in /a's own installed set, reported INSTALLED with
\* its lookup failed
C10_Witness ==
    \E k \in DOMAIN Reports : \E i \in DOMAIN libraries :
        /\ libraries[i].path = P_A
        /\ StartsWith(all_compatdata[k].path, PathJoin(P_A, COMPATDATA_REL))
        /\ \A j \in DOMAIN libraries :
             libraries[j].path = P_A => Reports[k].app_id \notin libraries[j].installed_apps
        /\ Reports[k].status = "INSTALLED"
        /\ Reports[k].text = FAILED_TEXT

====
